---- MODULE Spec2Model ----
(***************************************************************************)
(* A model of the HTML-to-Markdown converter: the path normaliser          *)
(* (utils.py, path_resolver.py), the content-addressed image store         *)
(* (image_manager.py) and the orchestrator (converter.py).                 *)
(*                                                                         *)
(* Paths and names are TLA+ strings and are handled character by           *)
(* character, as the Python code handles them.  A file's bytes are a       *)
(* short string; directories are implicit in the paths of the files.       *)
(***************************************************************************)
EXTENDS Naturals, Sequences, FiniteSets, TLC

VARIABLES
    html_src,          \* the source tree's HTML documents: document -> its <img src> values, in order
    pc,                \* position in HtmlToMarkdownConverter.convert()
    result,            \* what convert() returned: "none" while running, "True", "False", "raised"
    html_files,        \* convert(): the list find_html_files returned
    doc_i,             \* convert(): documents of html_files handled by the phase 3 loop
    converted_files,   \* convert(): documents whose Markdown was written
    output,            \* files under output_dir: path -> content
    static,            \* files under ImageManager.static_dir: relative path -> bytes
    image_references,  \* ImageManager.image_references, in insertion order
    ref_calls,         \* the calls of add_image_reference so far, in order (log)
    image_map,         \* ImageManager.image_map, in insertion order
    hash_to_path,      \* ImageManager.hash_to_path
    moved_images,      \* ImageManager.moved_images
    img_i,             \* process_images(): entries of image_references handled
    counter,           \* process_images(): the suffix counter; 0 outside the while loop
    hashed,            \* source files process_images has hashed so far (log)
    copies,            \* the copies process_images has made so far, in order (log)
    stats,             \* what get_deduplication_stats returned
    rw_i,              \* _update_image_paths_in_markdown(): documents of converted_files handled
    removed,           \* files remove_unreferenced_images deleted (log)
    stages,            \* the stages convert() has entered, in order (log)
    faults,            \* I/O faults injected so far
    report,            \* what HtmlToMarkdownConverter.validate() found (ValidateSpec)
    first_run,         \* the image_map of each earlier run of process_images on this tree (RerunSpec)
    written,           \* Markdown files _update_image_paths_in_markdown wrote (log)
    lookup,            \* a call of get_new_image_path_by_filename and what it returned (LookupSpec)
    pth                \* a call of the path functions on one document (PathSpec)

vars == <<html_src, pc, result, html_files, doc_i, converted_files, output, static,
          image_references, image_map, hash_to_path, moved_images, img_i, counter,
          hashed, copies, stats, rw_i, removed, stages, faults, pth, report, first_run, written, lookup, ref_calls>>

(***************************************************************************)
(* Bounds of the model.                                                    *)
(***************************************************************************)
MaxImgs == 2      \* <img> elements per document
MaxFaults == 1    \* injected I/O faults per run
MaxDepth == 2     \* directories above a document in PathSpec
MaxTokens == 3    \* tokens of a link text in AnchorSpec

(***************************************************************************)
(* Strings.                                                                *)
(***************************************************************************)
Max(S) == CHOOSE x \in S : \A y \in S : y <= x

Char(s, i) == SubSeq(s, i, i)

\* str.startswith / str.endswith
startswith(s, p) == Len(s) >= Len(p) /\ SubSeq(s, 1, Len(p)) = p

endswith(s, p) == Len(s) >= Len(p) /\ SubSeq(s, Len(s) - Len(p) + 1, Len(s)) = p

lower_char(c) ==
    CASE c = "A" -> "a" [] c = "B" -> "b" [] c = "C" -> "c" [] c = "D" -> "d"
      [] c = "E" -> "e" [] c = "F" -> "f" [] c = "G" -> "g" [] c = "H" -> "h"
      [] c = "I" -> "i" [] c = "J" -> "j" [] c = "K" -> "k" [] c = "L" -> "l"
      [] c = "M" -> "m" [] c = "N" -> "n" [] c = "O" -> "o" [] c = "P" -> "p"
      [] c = "Q" -> "q" [] c = "R" -> "r" [] c = "S" -> "s" [] c = "T" -> "t"
      [] c = "U" -> "u" [] c = "V" -> "v" [] c = "W" -> "w" [] c = "X" -> "x"
      [] c = "Y" -> "y" [] c = "Z" -> "z" [] OTHER -> c

RECURSIVE lower(_)
\* str.lower
lower(s) == IF s = "" THEN "" ELSE lower_char(Head(s)) \o lower(Tail(s))

RECURSIVE replace_spaces(_)
\* str.replace(' ', '_')
replace_spaces(s) ==
    IF s = "" THEN ""
    ELSE (IF Head(s) = " " THEN "_" ELSE Head(s)) \o replace_spaces(Tail(s))

\* the positions of character c in s
Positions(s, c) == {i \in 1..Len(s) : Char(s, i) = c}

\* str.rsplit('.', 1): <<s>> without a dot, else <<before the last dot, after it>>
rsplit_dot(s) ==
    IF Positions(s, ".") = {} THEN <<s>>
    ELSE LET k == Max(Positions(s, "."))
         IN  <<SubSeq(s, 1, k - 1), SubSeq(s, k + 1, Len(s))>>

RECURSIVE split(_, _)
\* str.split(sep) for a one-character separator
split(s, sep) ==
    IF Positions(s, sep) = {} THEN <<s>>
    ELSE LET k == Max(Positions(s, sep))
         IN  Append(split(SubSeq(s, 1, k - 1), sep), SubSeq(s, k + 1, Len(s)))

(***************************************************************************)
(* pathlib: a relative path is the sequence of its parts.                  *)
(***************************************************************************)
\* PurePath parsing: empty components and "." components are dropped
Parts(s) == SelectSeq(split(s, "/"), LAMBDA c : c # "" /\ c # ".")

RECURSIVE join(_)
join(parts) ==
    IF parts = <<>> THEN ""
    ELSE IF Len(parts) = 1 THEN parts[1]
    ELSE parts[1] \o "/" \o join(Tail(parts))

\* str(Path(*parts))
PathStr(parts) == IF parts = <<>> THEN "." ELSE join(parts)

\* Path.name
Name(parts) == IF parts = <<>> THEN "" ELSE parts[Len(parts)]

\* Path.parent
Parent(parts) == IF parts = <<>> THEN <<>> ELSE SubSeq(parts, 1, Len(parts) - 1)

RECURSIVE resolve(_)
\* Path.resolve() on the parts of a path under the input root: ".." steps up
resolve(parts) ==
    IF parts = <<>> THEN <<>>
    ELSE LET before == resolve(Parent(parts))
             last == parts[Len(parts)]
         IN  IF last = ".." THEN Parent(before) ELSE Append(before, last)

normalize_part(part) ==
    IF Positions(part, ".") # {} /\ ~startswith(part, ".")
    THEN LET ne == rsplit_dot(part)
         IN  replace_spaces(lower(ne[1])) \o "." \o lower(ne[2])
    ELSE replace_spaces(lower(part))

\* utils.normalize_path, on the parts of a relative path
normalize_path(parts) == [i \in 1..Len(parts) |-> normalize_part(parts[i])]

(***************************************************************************)
(* The run's directories (converter.py __init__, image_manager.py          *)
(* __init__).  The pipeline model converts the input directory InputName;  *)
(* PathSpec varies the input directory's name.                             *)
(***************************************************************************)
InputName == "Docs"

output_dir == "/site/out"

output_dirname == Name(Parts(output_dir))

\* ImageManager.static_dir
static_dir == "/" \o PathStr(Parent(Parts(output_dir))) \o "/static/img/" \o output_dirname

\* HtmlToMarkdownConverter.project_name
project_name_of(input_name) == lower(input_name)

(***************************************************************************)
(* PathResolver.get_output_path and the subdirectory process_images        *)
(* derives from a document.  rel is the document's path relative to the    *)
(* input directory, as parts.                                              *)
(***************************************************************************)
\* a faulty variant of collapse_output_parts: the first part is dropped when the input
\* directory's name, or the first part, comes again anywhere in the path
collapse_any_repeat(input_name, path_parts) ==
    IF path_parts # <<>>
       /\ \E i \in 1..Len(path_parts) :
             \/ lower(path_parts[i]) = lower(input_name)
             \/ i >= 2 /\ lower(path_parts[i]) = lower(path_parts[1])
    THEN Tail(path_parts)
    ELSE path_parts

\* path_resolver.py 127-138
collapse_output_parts(input_name, path_parts) ==
    IF path_parts = <<>> THEN path_parts
    ELSE IF lower(path_parts[1]) = lower(input_name)
         THEN (IF Len(path_parts) > 1 THEN Tail(path_parts) ELSE <<>>)
    ELSE IF Len(path_parts) >= 2 /\ lower(path_parts[1]) = lower(path_parts[2])
         THEN Tail(path_parts)
    ELSE path_parts

\* path_resolver.py 143-147
swap_extension(path_str) ==
    IF endswith(path_str, ".htm") THEN SubSeq(path_str, 1, Len(path_str) - 4) \o ".md"
    ELSE IF endswith(path_str, ".html") THEN SubSeq(path_str, 1, Len(path_str) - 5) \o ".md"
    ELSE path_str

\* PathResolver.get_output_path, relative to output_dir
output_rel_path(input_name, rel) ==
    swap_extension(PathStr(collapse_output_parts(input_name, normalize_path(rel))))

\* PathResolver.get_output_path
get_output_path(input_name, rel) ==
    LET path_str == output_rel_path(input_name, rel)
    IN  IF path_str = "." THEN output_dir ELSE output_dir \o "/" \o path_str

\* image_manager.py 104-134: the parts of doc_subdir
image_subdir_parts(project_name, rel) ==
    LET subdir_parts == Parent(normalize_path(rel))
    IN  IF lower(project_name) = "product_docs" /\ subdir_parts # <<>>
        THEN (IF Len(subdir_parts) >= 2 /\ lower(subdir_parts[1]) = lower(subdir_parts[2])
              THEN Tail(subdir_parts) ELSE subdir_parts)
        ELSE IF subdir_parts # <<>>
        THEN (IF lower(subdir_parts[1]) = lower(project_name)
              THEN (IF Len(subdir_parts) > 1 THEN Tail(subdir_parts) ELSE <<>>)
              ELSE IF Len(subdir_parts) >= 2 /\ lower(subdir_parts[1]) = lower(subdir_parts[2])
              THEN Tail(subdir_parts)
              ELSE subdir_parts)
        ELSE subdir_parts

(***************************************************************************)
(* PathSpec: the path functions applied to one document of an input tree.  *)
(* pth.root is the input directory's name, pth.rel the document's path     *)
(* below it; pth.norm (the normalized path of get_output_path), pth.out,   *)
(* pth.img and pth.link are filled by the calls.                           *)
(***************************************************************************)
Roots == {"Docs", "product_docs", "Site"}

DirNames == {"Docs", "docs", "Setup", "Product Docs", "guide.html", "Rel 1.0 Beta"}

DocNames == {"guide.html", "x.html", "Read Me.HTM"}

SeqUpTo(S, n) == UNION {[1..k -> S] : k \in 0..n}

PathIdle ==
    [root |-> InputName, rel |-> <<>>, norm |-> <<>>, out |-> "", img |-> "", cur |-> <<>>,
     href |-> "", anchor |-> "", link |-> "", text |-> "", md |-> <<>>, calls |-> {}]

PipelineIdle ==
    /\ html_src = <<>> /\ pc = "idle" /\ result = "none" /\ html_files = <<>>
    /\ doc_i = 0 /\ converted_files = <<>> /\ output = <<>> /\ static = <<>>
    /\ image_references = <<>> /\ image_map = <<>> /\ hash_to_path = <<>>
    /\ moved_images = {} /\ img_i = 0 /\ counter = 0 /\ hashed = {} /\ copies = <<>>
    /\ stats = <<>> /\ rw_i = 0 /\ removed = {} /\ stages = <<>> /\ faults = 0
    /\ ref_calls = <<>>
    /\ lookup = <<>>
    /\ written = {}
    /\ first_run = <<>>
    /\ report = [ran |-> FALSE, errors |-> {}]

PathInit ==
    /\ PipelineIdle
    /\ \E root \in Roots, dirs \in SeqUpTo(DirNames, MaxDepth), name \in DocNames :
          pth = [PathIdle EXCEPT !.root = root, !.rel = Append(dirs, name)]

PipelineUnchanged ==
    UNCHANGED <<html_src, pc, result, html_files, doc_i, converted_files, output, static,
                image_references, image_map, hash_to_path, moved_images, img_i, counter,
                hashed, copies, stats, rw_i, removed, stages, faults, ref_calls, lookup, written, first_run, report>>

\* PathResolver.get_output_path(input_file)
GetOutputPath ==
    /\ "out" \notin pth.calls
    /\ pth' = [pth EXCEPT !.norm = normalize_path(pth.rel),
                          !.out = get_output_path(pth.root, pth.rel),
                          !.calls = @ \cup {"out"}]
    /\ PipelineUnchanged

\* process_images: the image subdirectory for a referencing document
ImageSubdir ==
    /\ "img" \notin pth.calls
    /\ pth' = [pth EXCEPT
                 !.img = PathStr(image_subdir_parts(project_name_of(pth.root), pth.rel)),
                 !.calls = @ \cup {"img"}]
    /\ PipelineUnchanged

\* utils.is_external_url: urlparse(url).scheme is one of the five schemes
is_external_url(url) ==
    \E scheme \in {"http", "https", "mailto", "ftp", "tel"} :
        /\ Len(url) > Len(scheme)
        /\ lower(SubSeq(url, 1, Len(scheme) + 1)) = scheme \o ":"

\* utils.is_special_link
is_special_link(url) ==
    startswith(url, "#") \/ startswith(url, "javascript:") \/ startswith(url, "data:")

RECURSIVE unquote(_)
\* urllib.parse.unquote, for the escape %20
unquote(s) ==
    IF s = "" THEN ""
    ELSE IF startswith(s, "%20") THEN " " \o unquote(SubSeq(s, 4, Len(s)))
    ELSE Head(s) \o unquote(Tail(s))

\* utils.extract_anchor: <<path_part, anchor>>
extract_anchor(path) ==
    IF Positions(path, "#") = {} THEN <<path, "">>
    ELSE LET k == CHOOSE i \in Positions(path, "#") : \A j \in Positions(path, "#") : i <= j
         IN  <<SubSeq(path, 1, k - 1), SubSeq(path, k, Len(path))>>

\* PathResolver._convert_to_document_path, on the parts of the normalized path
convert_to_document_path(input_name, normalized_parts) ==
    LET path_parts == collapse_output_parts(input_name,
                          Parts(swap_extension(PathStr(normalized_parts))))
    IN  "/" \o output_dirname \o "/" \o join(path_parts)

\* PathResolver.resolve_path with path_type = 'document'; current_file is the
\* linking document's path below the input directory, as parts
resolve_path(input_name, current_file, target_path) ==
    IF is_external_url(target_path) \/ is_special_link(target_path) THEN target_path
    ELSE LET pa == extract_anchor(unquote(target_path))
             relative_to_input ==
                 IF startswith(pa[1], "/") THEN Parts(pa[1])
                 ELSE resolve(Parent(current_file) \o Parts(pa[1]))
         IN  convert_to_document_path(input_name, normalize_path(relative_to_input)) \o pa[2]

RECURSIVE quote_spaces(_)
\* a path as an href writes it, spaces escaped
quote_spaces(s) ==
    IF s = "" THEN ""
    ELSE (IF Head(s) = " " THEN "%20" ELSE Head(s)) \o quote_spaces(Tail(s))

\* the ways a document links to the document pth.rel: <<linking document, href>>
LinksTo(rel) ==
    {<<<<"index.html">>, "/" \o join(rel)>>,
     <<<<"index.html">>, "/Setup/../" \o join(rel)>>,
     <<<<"index.html">>, join(rel)>>,
     <<Append(Parent(rel), "index.html"), Name(rel)>>,
     <<<<"Sub", "index.html">>, "../" \o join(rel)>>}

\* how the href is written: <<spaces escaped, anchor>>
HrefStyles == {<<FALSE, "">>, <<TRUE, "#Top">>}

\* HtmlPreprocessor._process_links: resolve_path on the href of one <a>
ResolvePath ==
    /\ "link" \notin pth.calls
    /\ \E l \in LinksTo(pth.rel), style \in HrefStyles :
          LET href == (IF style[1] THEN quote_spaces(l[2]) ELSE l[2]) \o style[2]
          IN  pth' = [pth EXCEPT !.cur = l[1], !.href = href, !.anchor = style[2],
                                 !.link = resolve_path(pth.root, l[1], href),
                                 !.calls = @ \cup {"link"}]
    /\ PipelineUnchanged

PathNext == GetOutputPath \/ ImageSubdir \/ ResolvePath

PathSpec == PathInit /\ [][PathNext]_vars

(***************************************************************************)
(* AnchorSpec: CustomMarkdownConverter.convert_a on one <a>, with the href *)
(* in pth.href and the text of the element in pth.text; pth.md is the      *)
(* Markdown link it returns.                                               *)
(***************************************************************************)
RECURSIVE strip_char(_, _)
\* str.strip(c) for one character c
strip_char(s, c) ==
    IF s = "" THEN ""
    ELSE IF Head(s) = c THEN strip_char(Tail(s), c)
    ELSE IF Char(s, Len(s)) = c THEN strip_char(SubSeq(s, 1, Len(s) - 1), c)
    ELSE s

RECURSIVE replace_char(_, _, _)
\* str.replace(c, by) for one character c
replace_char(s, c, by) ==
    IF s = "" THEN ""
    ELSE (IF Head(s) = c THEN by ELSE Head(s)) \o replace_char(Tail(s), c, by)

Letters == "abcdefghijklmnopqrstuvwxyzABCDEFGHIJKLMNOPQRSTUVWXYZ"

Digits == "0123456789"

\* str.isalnum for one character
isalnum(c) == Positions(Letters, c) # {} \/ Positions(Digits, c) # {}

RECURSIVE keep_anchor_chars(_)
\* markdown_converter.py 92
keep_anchor_chars(s) ==
    IF s = "" THEN ""
    ELSE (IF isalnum(Head(s)) \/ Head(s) = "-" \/ Head(s) = "_" THEN Head(s) ELSE "")
             \o keep_anchor_chars(Tail(s))

RECURSIVE collapse_hyphens(_)
\* markdown_converter.py 94-95: what is left when no "--" remains
collapse_hyphens(s) ==
    IF Len(s) < 2 THEN s
    ELSE IF SubSeq(s, 1, 2) = "--" THEN collapse_hyphens(Tail(s))
    ELSE Head(s) \o collapse_hyphens(Tail(s))

\* CustomMarkdownConverter._generate_markdown_anchor
generate_markdown_anchor(text) ==
    strip_char(collapse_hyphens(keep_anchor_chars(
        replace_char(strip_char(text, " "), " ", "-"))), "-")

\* CustomMarkdownConverter.convert_a: the text and the target of the Markdown link,
\* target "<None>" when the text alone is returned
convert_a(href, text) ==
    IF href = "" THEN [text |-> text, href |-> "<None>"]
    ELSE IF Positions(href, "#") # {}
    THEN [text |-> text,
          href |-> extract_anchor(href)[1] \o "#" \o generate_markdown_anchor(text)]
    ELSE [text |-> text, href |-> href]

Tokens == {"Getting", "started", " ", "-", "_", "&", "2"}

RECURSIVE concat(_)
concat(words) == IF words = <<>> THEN "" ELSE Head(words) \o concat(Tail(words))

\* the hrefs convert_a is given: what the preprocessor left in the <a>
Hrefs == {"#Getting-Started", "/out/setup/guide.md#Top", "/out/setup/guide.md", ""}

AnchorInit ==
    /\ PipelineIdle
    /\ \E href \in Hrefs, words \in SeqUpTo(Tokens, MaxTokens) :
          pth = [PathIdle EXCEPT !.href = href, !.text = concat(words)]

ConvertA ==
    /\ "md" \notin pth.calls
    /\ pth' = [pth EXCEPT !.md = convert_a(pth.href, pth.text), !.calls = @ \cup {"md"}]
    /\ PipelineUnchanged

AnchorSpec == AnchorInit /\ [][ConvertA]_vars

\* the part of an output path below output_dir
BelowOutputDir(path) == SubSeq(path, Len(output_dir) + 2, Len(path))

(***************************************************************************)
(* The source tree of the pipeline model.  The image files and the other   *)
(* files are fixed; the documents and their <img> elements vary (Init).    *)
(* Paths are relative to the input directory.                              *)
(***************************************************************************)
DocX == <<"x.html">>

DocY == <<"Sub", "Y Page.HTM">>

DocUniverse == {DocX, DocY}

\* image files of the source tree: path -> bytes
SourceImages ==
    [p \in {"logo.png", "Logo.PNG", "Sub/logo.png", "Sub/banner.png"} |->
        CASE p = "logo.png" -> "bytes-A"
          [] p = "Logo.PNG" -> "bytes-B"
          [] OTHER -> "bytes-C"]

\* the other files of the source tree: path -> bytes
SourceAssets == [p \in {"Sub/Read Me.TXT"} |-> "bytes-T"]

ExternalSrc == "https://cdn.example.com/logo.png"

\* the srcs the <img> elements of a document are drawn from
ImgSrcs(doc) ==
    IF doc = DocX THEN {"logo.png", "Logo.PNG", "banner.png", ExternalSrc}
    ELSE {"logo.png", "banner.png", "../logo.png"}

\* what a previous run can have left under static_dir: path -> bytes
StaleTrees ==
    {<<>>,
     [p \in {"logo.png"} |-> "bytes-A"],
     [p \in {"logo.png"} |-> "bytes-D"],
     [p \in {"logo.png", "logo_1.png"} |-> "bytes-D"]}

(***************************************************************************)
(* Finite maps.                                                            *)
(***************************************************************************)
Put(f, k, v) == [x \in DOMAIN f \cup {k} |-> IF x = k THEN v ELSE f[x]]

Restrict(f, S) == [x \in S |-> f[x]]

Range(seq) == {seq[i] : i \in DOMAIN seq}

\* the first of the indices I of a sequence, 0 if there is none
FirstIndex(I) == IF I = {} THEN 0 ELSE CHOOSE i \in I : \A j \in I : i <= j

(***************************************************************************)
(* convert(): phases 1 to 3.                                               *)
(***************************************************************************)
Init ==
    /\ \E D \in SUBSET DocUniverse :
       \E sx \in SeqUpTo(ImgSrcs(DocX), MaxImgs), sy \in SeqUpTo(ImgSrcs(DocY), MaxImgs) :
          html_src = [d \in D |-> IF d = DocX THEN sx ELSE sy]
    /\ static \in StaleTrees
    /\ pc = "scan" /\ result = "none" /\ html_files = <<>>
    /\ doc_i = 0 /\ converted_files = <<>> /\ output = <<>>
    /\ image_references = <<>> /\ image_map = <<>> /\ hash_to_path = <<>>
    /\ moved_images = {} /\ img_i = 0 /\ counter = 0 /\ hashed = {} /\ copies = <<>>
    /\ stats = <<>> /\ rw_i = 0 /\ removed = {} /\ stages = <<>> /\ faults = 0
    /\ ref_calls = <<>>
    /\ lookup = <<>>
    /\ written = {}
    /\ first_run = <<>>
    /\ report = [ran |-> FALSE, errors |-> {}]
    /\ pth = PathIdle

\* is directory a an ancestor of (or equal to) directory b
IsPrefix(a, b) == Len(a) <= Len(b) /\ SubSeq(b, 1, Len(a)) = a

\* os.walk, top down: a directory's files come before the files of the directories
\* below it; the order among the entries of one directory is the file system's
WalkOrders(D) ==
    {w \in [1..Cardinality(D) -> D] :
        /\ \A i, j \in DOMAIN w : i # j => w[i] # w[j]
        /\ \A i, j \in DOMAIN w :
              (Parent(w[i]) # Parent(w[j]) /\ IsPrefix(Parent(w[i]), Parent(w[j]))) => i < j}

\* FileSystemHandler.find_html_files and the test of converter.py 49
FindHtmlFiles ==
    /\ pc = "scan"
    /\ \E w \in WalkOrders(DOMAIN html_src) :
          /\ html_files' = w
          /\ IF w = <<>>
             THEN pc' = "done" /\ result' = "False" /\ stages' = <<"scan">>
             ELSE pc' = "process" /\ result' = result /\ stages' = <<"scan", "transform">>
    /\ UNCHANGED <<html_src, doc_i, converted_files, output, static, image_references,
                   image_map, hash_to_path, moved_images, img_i, counter, hashed, copies,
                   stats, rw_i, removed, faults, pth, report, first_run, written, lookup, ref_calls>>

\* the src test of preprocessor.py 58, image_manager.py 71, converter.py 255
is_external(src) == startswith(src, "http://") \/ startswith(src, "https://")

\* a faulty variant of list_append: the list of a known key is replaced
list_replace(refs, key, source_doc) ==
    LET k == FirstIndex({i \in DOMAIN refs : refs[i].path = key})
    IN  IF k = 0 THEN Append(refs, [path |-> key, docs |-> <<source_doc>>])
        ELSE [refs EXCEPT ![k].docs = <<source_doc>>]

\* image_references[key].append(source_doc) on the defaultdict(list)
list_append(refs, key, source_doc) ==
    LET k == FirstIndex({i \in DOMAIN refs : refs[i].path = key})
    IN  IF k = 0 THEN Append(refs, [path |-> key, docs |-> <<source_doc>>])
        ELSE [refs EXCEPT ![k].docs = Append(@, source_doc)]

\* ImageManager.add_image_reference; resolved_path is None in the call of
\* preprocessor.py 62
add_image_reference(refs, original_path, source_doc, resolved_path) ==
    LET first == list_append(refs, original_path, source_doc)
    IN  IF resolved_path # "<None>" /\ resolved_path # ""
        THEN list_append(first, resolved_path, source_doc)
        ELSE first

\* preprocessor.py 66-69: the placeholder written for a local image
placeholder_path(src) ==
    "/static/img/" \o output_dirname \o "/" \o replace_spaces(lower(Name(Parts(src))))

\* a faulty variant of tracked_srcs: external images are tracked too
tracked_srcs_all(srcs) == SelectSeq(srcs, LAMBDA src : src # "")

\* preprocessor.py 52-62: the srcs _process_images hands to add_image_reference
tracked_srcs(srcs) == SelectSeq(srcs, LAMBDA src : src # "" /\ ~is_external(src))

RECURSIVE add_all(_, _, _)
add_all(refs, srcs, doc) ==
    IF srcs = <<>> THEN refs
    ELSE add_all(add_image_reference(refs, Head(srcs), doc, "<None>"), Tail(srcs), doc)

\* preprocessor.py 64-73 and CustomMarkdownConverter.convert_img: the image link of
\* one <img>, with the alt text taken from the file name of the src it was given
image_link(src) ==
    LET new_src == IF src \in Range(tracked_srcs(<<src>>)) THEN placeholder_path(src) ELSE src
    IN  [alt |-> split(Name(split(new_src, "/")), ".")[1], target |-> new_src]

\* the Markdown that _process_html_file writes for a document: its image links
markdown_of(srcs) ==
    [kind |-> "md",
     links |-> [i \in 1..Len(SelectSeq(srcs, LAMBDA src : src # "")) |->
                  image_link(SelectSeq(srcs, LAMBDA src : src # "")[i])]]

\* a faulty variant of all_transformed: the loop of phase 3 is left after one document
all_transformed_early == doc_i >= 1

\* converter.py 55: the loop over html_files is exhausted
all_transformed == doc_i = Len(html_files)

\* HtmlToMarkdownConverter._process_html_file for the next document of html_files.
\* read_file returns None on an OSError and lets a UnicodeDecodeError through
\* (file_handler.py 49-54); write_file returns False on an OSError.
ProcessHtmlFile ==
    /\ pc = "process" /\ ~all_transformed
    /\ LET html_file == html_files[doc_i + 1]
           refs == add_all(image_references, tracked_srcs(html_src[html_file]), html_file)
           calls == ref_calls \o [i \in DOMAIN tracked_srcs(html_src[html_file]) |->
                                   [path |-> tracked_srcs(html_src[html_file])[i],
                                    doc |-> html_file]]
           output_path == get_output_path(InputName, html_file)
       IN  \/ \* read_file: OSError, None is returned
              /\ faults < MaxFaults /\ faults' = faults + 1
              /\ doc_i' = doc_i + 1
              /\ UNCHANGED <<pc, result, converted_files, output, image_references,
                             ref_calls>>
           \/ \* read_file: the bytes are not UTF-8, the exception leaves convert()
              /\ pc' = "raised" /\ result' = "raised"
              /\ UNCHANGED <<doc_i, faults, converted_files, output, image_references,
                             ref_calls>>
           \/ \* the document is transformed and written
              /\ image_references' = refs /\ ref_calls' = calls
              /\ output' = Put(output, output_path, markdown_of(html_src[html_file]))
              /\ converted_files' = Append(converted_files, html_file)
              /\ doc_i' = doc_i + 1
              /\ UNCHANGED <<pc, result, faults>>
           \/ \* write_file: OSError, False is returned
              /\ faults < MaxFaults /\ faults' = faults + 1
              /\ image_references' = refs /\ ref_calls' = calls
              /\ doc_i' = doc_i + 1
              /\ UNCHANGED <<pc, result, converted_files, output>>
    /\ UNCHANGED <<html_src, html_files, static, image_map, hash_to_path, moved_images,
                   img_i, counter, hashed, copies, stats, rw_i, removed, stages, pth, report, first_run, written, lookup>>

(***************************************************************************)
(* TreeSpec: phases 1 to 3 of convert() on input trees whose documents have *)
(* names and directories that differ in extension or in a repeated         *)
(* directory only.                                                          *)
(***************************************************************************)
TreeUniverse ==
    {<<"a.html">>, <<"a.htm">>, <<"b.html">>, <<"Sub", "a.html">>,
     <<"Sub", "Sub", "a.html">>, <<"Sub", "c.html">>}

TreeInit ==
    /\ \E D \in SUBSET TreeUniverse : html_src = [d \in D |-> <<>>]
    /\ static = <<>>
    /\ pc = "scan" /\ result = "none" /\ html_files = <<>>
    /\ doc_i = 0 /\ converted_files = <<>> /\ output = <<>>
    /\ image_references = <<>> /\ image_map = <<>> /\ hash_to_path = <<>>
    /\ moved_images = {} /\ img_i = 0 /\ counter = 0 /\ hashed = {} /\ copies = <<>>
    /\ stats = <<>> /\ rw_i = 0 /\ removed = {} /\ stages = <<>> /\ faults = 0
    /\ ref_calls = <<>> /\ written = {} /\ lookup = <<>> /\ first_run = <<>>
    /\ report = [ran |-> FALSE, errors |-> {}]
    /\ pth = PathIdle

TreeNext == FindHtmlFiles \/ ProcessHtmlFile

TreeSpec == TreeInit /\ [][TreeNext]_vars

(***************************************************************************)
(* ImageManager.process_images.                                            *)
(***************************************************************************)
\* hashlib.sha256 of a file's bytes: a digest, one per content
sha256(bytes) == "sha256:" \o bytes

\* image_manager.py 79-87: the file original_path names, seen from source_doc; a path
\* that starts with "/" is not joined and names a file outside the input directory
candidate(source_doc, original_path) ==
    IF startswith(original_path, "/") THEN "/" \o PathStr(resolve(Parts(original_path)))
    ELSE PathStr(resolve(Parent(source_doc) \o Parts(original_path)))

\* a faulty variant of first_resolving: the last document whose candidate exists
last_resolving(source_docs, original_path) ==
    LET I == {i \in DOMAIN source_docs :
                 candidate(source_docs[i], original_path) \in DOMAIN SourceImages}
    IN  IF I = {} THEN 0 ELSE Max(I)

\* image_manager.py 77-91: the first referencing document whose candidate exists
\* (its index in source_docs, 0 if there is none)
first_resolving(source_docs, original_path) ==
    FirstIndex({i \in DOMAIN source_docs :
                    candidate(source_docs[i], original_path) \in DOMAIN SourceImages})

\* dict assignment d[key] = value on an insertion-ordered dict
dict_set(d, key, value) ==
    LET k == FirstIndex({i \in DOMAIN d : d[i].path = key})
    IN  IF k = 0 THEN Append(d, [path |-> key] @@ value)
        ELSE [d EXCEPT ![k] = [path |-> key] @@ value]

\* image_manager.py 164-181: the name tried with a counter
suffixed_name(original_name, n) ==
    LET name_parts == rsplit_dot(original_name)
    IN  IF Len(name_parts) = 2
        THEN name_parts[1] \o "_" \o ToString(n) \o "." \o name_parts[2]
        ELSE original_name \o "_" \o ToString(n)

\* the path below static_dir of a file name in the image subdirectory of a document
static_rel(referencing_doc, filename) ==
    PathStr(image_subdir_parts(project_name_of(InputName), referencing_doc) \o <<filename>>)

\* converter.py 63: process_images is called (image_manager.py 59-63)
BeginProcessImages ==
    /\ pc = "process" /\ all_transformed
    /\ pc' = "images" /\ img_i' = 0
    /\ stages' = Append(stages, "images")
    /\ UNCHANGED <<html_src, result, html_files, doc_i, converted_files, output, static,
                   image_references, image_map, hash_to_path, moved_images, counter,
                   hashed, copies, stats, rw_i, removed, faults, pth, report, first_run, written, lookup, ref_calls>>

\* a faulty variant of Recorded: the canonical file is not added to moved_images
Recorded_not_tracked(original_path, file_hash, relative_path) ==
    /\ moved_images' = moved_images
    /\ hash_to_path' = Put(hash_to_path, file_hash, relative_path)
    /\ image_map' = dict_set(image_map, original_path,
                             [hash |-> file_hash, new |-> relative_path])

\* a faulty variant of Recorded: the table keeps the entry of the latest hash only
Recorded_latest_only(original_path, file_hash, relative_path) ==
    /\ moved_images' = moved_images \cup {static_dir \o "/" \o relative_path}
    /\ hash_to_path' = [h \in {file_hash} |-> relative_path]
    /\ image_map' = dict_set(image_map, original_path,
                             [hash |-> file_hash, new |-> relative_path])

\* image_manager.py 185-189 and 193-197: the bookkeeping for a canonical file
Recorded(original_path, file_hash, relative_path) ==
    /\ moved_images' = moved_images \cup {static_dir \o "/" \o relative_path}
    /\ hash_to_path' = Put(hash_to_path, file_hash, relative_path)
    /\ image_map' = dict_set(image_map, original_path,
                             [hash |-> file_hash, new |-> relative_path])

\* a faulty variant of CopyImage: the bookkeeping is done for a failed copy too
CopyImage_recorded_anyway(original_path, full_path, file_hash, new_path, conflict) ==
    \/ /\ static' = Put(static, new_path, SourceImages[full_path])
       /\ copies' = Append(copies, [key |-> original_path,
                                    src |-> full_path, dst |-> new_path,
                                    hash |-> file_hash, conflict |-> conflict,
                                    taken |-> static])
       /\ Recorded(original_path, file_hash, new_path)
       /\ UNCHANGED faults
    \/ /\ faults < MaxFaults /\ faults' = faults + 1
       /\ Recorded(original_path, file_hash, new_path)
       /\ UNCHANGED <<static, copies>>

\* image_manager.py 191-200: shutil.copy2 and the bookkeeping, or the OSError caught
CopyImage(original_path, full_path, file_hash, new_path, conflict) ==
    \/ /\ static' = Put(static, new_path, SourceImages[full_path])
       /\ copies' = Append(copies, [key |-> original_path,
                                    src |-> full_path, dst |-> new_path,
                                    hash |-> file_hash, conflict |-> conflict,
                                    taken |-> static])
       /\ Recorded(original_path, file_hash, new_path)
       /\ UNCHANGED faults
    \/ /\ faults < MaxFaults /\ faults' = faults + 1
       /\ UNCHANGED <<static, copies, moved_images, hash_to_path, image_map>>

\* a faulty variant of known: no hash is taken as processed before
known_never(file_hash) == FALSE

\* image_manager.py 145: file_hash in self.hash_to_path
known(file_hash) == file_hash \in DOMAIN hash_to_path

\* a faulty variant of name_taken: only the files of this run count as taken
name_taken_this_run(new_path) == (static_dir \o "/" \o new_path) \in moved_images

\* a faulty variant of name_taken: no name counts as taken
name_taken_never(new_path) == FALSE

\* image_manager.py 158, 171, 179: new_path.exists()
name_taken(new_path) == new_path \in DOMAIN static

\* image_manager.py 65-200: one iteration of the loop over image_references, up to
\* the copy or to the entry of the while loop that looks for a free name
ProcessImage ==
    /\ pc = "images" /\ counter = 0 /\ img_i < Len(image_references)
    /\ LET original_path == image_references[img_i + 1].path
           source_docs == image_references[img_i + 1].docs
           k == first_resolving(source_docs, original_path)
       IN  IF is_external(original_path) \/ k = 0
           THEN \* an external URL is skipped; a file that is not found is a warning
                /\ img_i' = img_i + 1
                /\ UNCHANGED <<static, image_map, hash_to_path, moved_images, counter,
                               hashed, copies, faults>>
           ELSE LET referencing_doc == source_docs[k]
                    full_path == candidate(referencing_doc, original_path)
                    file_hash == sha256(SourceImages[full_path])
                    original_name == normalize_part(Name(Parts(full_path)))
                    new_path == static_rel(referencing_doc, original_name)
                IN  /\ hashed' = hashed \cup {full_path}
                    /\ \/ \* calculate_hash: OSError, None is returned
                          /\ faults < MaxFaults /\ faults' = faults + 1
                          /\ img_i' = img_i + 1
                          /\ UNCHANGED <<static, image_map, hash_to_path, moved_images,
                                         counter, copies>>
                       \/ \* the hash is known: map to the existing file
                          /\ known(file_hash)
                          /\ image_map' = dict_set(image_map, original_path,
                                 [hash |-> file_hash, new |-> hash_to_path[file_hash]])
                          /\ img_i' = img_i + 1
                          /\ UNCHANGED <<static, hash_to_path, moved_images, counter,
                                         copies, faults>>
                       \/ \* a new hash, the name is taken by other content
                          /\ ~known(file_hash)
                          /\ name_taken(new_path) /\ sha256(static[new_path]) # file_hash
                          /\ counter' = 1
                          /\ UNCHANGED <<static, image_map, hash_to_path, moved_images,
                                         img_i, copies, faults>>
                       \/ \* a new hash, the name is taken, calculate_hash of the
                          \* file that has it: OSError, None differs from file_hash
                          /\ ~known(file_hash)
                          /\ name_taken(new_path)
                          /\ faults < MaxFaults /\ faults' = faults + 1
                          /\ counter' = 1
                          /\ UNCHANGED <<static, image_map, hash_to_path, moved_images,
                                         img_i, copies>>
                       \/ \* a new hash, the name is taken by the same content
                          /\ ~known(file_hash)
                          /\ name_taken(new_path) /\ sha256(static[new_path]) = file_hash
                          /\ Recorded(original_path, file_hash, new_path)
                          /\ img_i' = img_i + 1
                          /\ UNCHANGED <<static, counter, copies, faults>>
                       \/ \* a new hash, the name is free
                          /\ ~known(file_hash)
                          /\ ~name_taken(new_path)
                          /\ CopyImage(original_path, full_path, file_hash, new_path, FALSE)
                          /\ img_i' = img_i + 1
                          /\ UNCHANGED counter
    /\ UNCHANGED <<html_src, pc, result, html_files, doc_i, converted_files, output,
                   image_references, stats, rw_i, removed, stages, pth, report, first_run, written, lookup, ref_calls>>

\* image_manager.py 168-181: one test of the while loop, and the copy after it
SuffixStep ==
    /\ pc = "images" /\ counter > 0
    /\ LET original_path == image_references[img_i + 1].path
           source_docs == image_references[img_i + 1].docs
           referencing_doc == source_docs[first_resolving(source_docs, original_path)]
           full_path == candidate(referencing_doc, original_path)
           file_hash == sha256(SourceImages[full_path])
           original_name == normalize_part(Name(Parts(full_path)))
           new_path == static_rel(referencing_doc, suffixed_name(original_name, counter))
       IN  IF name_taken(new_path)
           THEN /\ counter' = counter + 1
                /\ UNCHANGED <<static, image_map, hash_to_path, moved_images, img_i,
                               copies, faults>>
           ELSE /\ CopyImage(original_path, full_path, file_hash, new_path, TRUE)
                /\ counter' = 0
                /\ img_i' = img_i + 1
    /\ UNCHANGED <<html_src, pc, result, html_files, doc_i, converted_files, output,
                   image_references, hashed, stats, rw_i, removed, stages, pth, report, first_run, written, lookup, ref_calls>>

\* format(x, ".1f") \o "%" for x = 100 * space_saved / total_references: the decimal
\* with one place nearest to x (to the even one when x lies half way)
deduplication_ratio(space_saved, total_references) ==
    LET q == (1000 * space_saved) \div total_references
        r == (1000 * space_saved) % total_references
        tenths == IF 2 * r > total_references \/ (2 * r = total_references /\ q % 2 = 1)
                  THEN q + 1 ELSE q
    IN  ToString(tenths \div 10) \o "." \o ToString(tenths % 10) \o "%"

\* a faulty variant of get_deduplication_stats: every referencing document counts
get_deduplication_stats_per_document ==
    LET total_references ==
            Cardinality({<<i, j>> \in (DOMAIN image_references) \X (1..Len(html_files)) :
                            j \in DOMAIN image_references[i].docs})
        space_saved == total_references - Cardinality(DOMAIN hash_to_path)
    IN  [total_references |-> total_references,
         unique_images |-> Cardinality(DOMAIN hash_to_path),
         duplicates_removed |-> space_saved,
         deduplication_ratio |->
             IF total_references > 0
             THEN deduplication_ratio(space_saved, total_references) ELSE "0%"]

\* ImageManager.get_deduplication_stats
get_deduplication_stats ==
    LET total_references == Len(image_references)
        unique_hashes == Cardinality(DOMAIN hash_to_path)
        space_saved == total_references - unique_hashes
    IN  [total_references |-> total_references,
         unique_images |-> unique_hashes,
         duplicates_removed |-> space_saved,
         deduplication_ratio |->
             IF total_references > 0
             THEN deduplication_ratio(space_saved, total_references) ELSE "0%"]

\* converter.py 66: the call of get_deduplication_stats
GetDeduplicationStats ==
    /\ pc = "images" /\ counter = 0 /\ img_i = Len(image_references)
    /\ stats' = get_deduplication_stats
    /\ pc' = "rewrite" /\ rw_i' = 0
    /\ stages' = Append(stages, "rewrite")
    /\ UNCHANGED <<html_src, result, html_files, doc_i, converted_files, output, static,
                   image_references, image_map, hash_to_path, moved_images, img_i, counter,
                   hashed, copies, removed, faults, pth, report, first_run, written, lookup, ref_calls>>

(***************************************************************************)
(* StatsSpec: get_deduplication_stats on the store process_images leaves   *)
(* for documents with n image srcs: the first u name files with a content  *)
(* of their own, the later ones copies of the u-th file; with u = 0 no     *)
(* src names a file.                                                       *)
(***************************************************************************)
MaxRefs == 10

StatsSrc(i) == "img" \o ToString(i) \o ".png"

StatsInit ==
    \E n \in 0..MaxRefs : \E u \in 0..n : \E both \in BOOLEAN :
        LET h(i) == IF i < u THEN i ELSE u
            docs == IF both THEN <<DocX, DocY>> ELSE <<DocX>>
        IN  /\ html_src = [d \in Range(docs) |-> [i \in 1..n |-> StatsSrc(i)]]
            /\ html_files = docs /\ converted_files = docs /\ doc_i = Len(docs)
            /\ output = [q \in {get_output_path(InputName, d) : d \in Range(docs)} |->
                             markdown_of([i \in 1..n |-> StatsSrc(i)])]
            /\ image_references = [i \in 1..n |-> [path |-> StatsSrc(i), docs |-> docs]]
            /\ ref_calls = [k \in 1..(n * Len(docs)) |->
                               [path |-> StatsSrc(((k - 1) % n) + 1),
                                doc |-> docs[((k - 1) \div n) + 1]]]
            /\ image_map = [i \in 1..(IF u = 0 THEN 0 ELSE n) |->
                               [path |-> StatsSrc(i), hash |-> sha256(StatsSrc(h(i))),
                                new |-> StatsSrc(h(i))]]
            /\ hash_to_path = [x \in {sha256(StatsSrc(i)) : i \in 1..u} |->
                                   SubSeq(x, Len("sha256:") + 1, Len(x))]
            /\ static = [x \in {StatsSrc(i) : i \in 1..u} |-> x]
            /\ moved_images = {static_dir \o "/" \o StatsSrc(i) : i \in 1..u}
            /\ hashed = {StatsSrc(i) : i \in 1..(IF u = 0 THEN 0 ELSE n)}
            /\ copies = [i \in 1..u |-> [key |-> StatsSrc(i),
                                          src |-> StatsSrc(i), dst |-> StatsSrc(i),
                                          hash |-> sha256(StatsSrc(i)), conflict |-> FALSE,
                                          taken |-> [x \in {StatsSrc(k) : k \in 1..(i - 1)} |-> x]]]
            /\ pc = "images" /\ img_i = n /\ counter = 0 /\ result = "none"
            /\ stats = <<>> /\ rw_i = 0 /\ removed = {} /\ faults = 0
            /\ stages = <<"scan", "transform", "images">>
            /\ lookup = <<>>
            /\ written = {}
            /\ first_run = <<>>
            /\ report = [ran |-> FALSE, errors |-> {}]
            /\ pth = PathIdle

StatsSpec == StatsInit /\ [][GetDeduplicationStats]_vars

(***************************************************************************)
(* The rewrite pass: ImageManager.get_new_image_path_by_filename and       *)
(* HtmlToMarkdownConverter._update_image_paths_in_markdown.                *)
(***************************************************************************)
None == "<None>"

\* PurePath.suffix and PurePath.stem
path_suffix(name) ==
    LET I == Positions(name, ".")
    IN  IF I # {} /\ Max(I) > 1 /\ Max(I) < Len(name)
        THEN SubSeq(name, Max(I), Len(name)) ELSE ""

path_stem(name) == SubSeq(name, 1, Len(name) - Len(path_suffix(name)))

\* fnmatch.fnmatchcase, which Path.rglob applies to each file name: "*" stands for
\* any characters, "?" for one, "[seq]" for one character of seq (seq not empty; no
\* range and no "!" occurs in the names drawn here), anything else for itself
RECURSIVE fnmatch(_, _)
fnmatch(name, pattern) ==
    IF pattern = "" THEN name = ""
    ELSE LET c == Char(pattern, 1)
             rest == SubSeq(pattern, 2, Len(pattern))
             closing == {i \in Positions(rest, "]") : i > 1}
         IN  IF c = "*"
             THEN fnmatch(name, rest) \/ (name # "" /\ fnmatch(Tail(name), pattern))
             ELSE IF c = "?"
             THEN name # "" /\ fnmatch(Tail(name), rest)
             ELSE IF c = "[" /\ closing # {}
             THEN LET k == CHOOSE i \in closing : \A j \in closing : i <= j
                  IN  /\ name # ""
                      /\ Positions(SubSeq(rest, 1, k - 1), Char(name, 1)) # {}
                      /\ fnmatch(Tail(name), SubSeq(rest, k + 1, Len(rest)))
             ELSE name # "" /\ Char(name, 1) = c /\ fnmatch(Tail(name), rest)

\* image_manager.py 229-236: rglob of "<stem>_*<suffix>"
matches_suffixed(name, stem, suffix) == fnmatch(name, stem \o "_*" \o suffix)

\* Path.rglob yields the hits of a directory before those of the directories below
\* it; among unrelated directories, and among the entries of one directory, the
\* order is the file system's.  The hits that can come first:
first_hits(hits) ==
    {p \in hits : ~\E q \in hits :
        /\ Parent(Parts(q)) # Parent(Parts(p))
        /\ IsPrefix(Parent(Parts(q)), Parent(Parts(p)))}

\* image_manager.py 217-221: the first entry of image_map whose original path has
\* this normalized file name (its index, 0 if there is none)
first_match(filename) ==
    FirstIndex({i \in DOMAIN image_map :
        normalize_part(Name(Parts(image_map[i].path))) = normalize_part(filename)})

\* ImageManager.get_new_image_path_by_filename: the values it can return
get_new_image_path_by_filename(filename) ==
    LET normalized_filename == normalize_part(filename)
        prefix == "/static/img/" \o output_dirname \o "/"
        k == first_match(filename)
        exact == {p \in DOMAIN static : fnmatch(Name(Parts(p)), normalized_filename)}
        suffixed == {p \in DOMAIN static :
                        matches_suffixed(Name(Parts(p)), path_stem(normalized_filename),
                                         path_suffix(normalized_filename))}
    IN  IF k # 0 THEN {prefix \o image_map[k].new}
        ELSE IF exact # {} THEN {prefix \o p : p \in first_hits(exact)}
        ELSE IF suffixed # {} THEN {prefix \o p : p \in first_hits(suffixed)}
        ELSE {None}

(***************************************************************************)
(* RerunSpec: process_images run on a reference index, then run again by a  *)
(* fresh ImageManager on the same index, the same source tree and the       *)
(* canonical tree the first run left (with or without the cleanup stage).   *)
(***************************************************************************)
RerunInit ==
    /\ \E sx \in SeqUpTo(ImgSrcs(DocX), MaxImgs), sy \in SeqUpTo(ImgSrcs(DocY), MaxImgs) :
          /\ html_src = [d \in DocUniverse |-> IF d = DocX THEN sx ELSE sy]
          /\ image_references = add_all(add_all(<<>>, tracked_srcs(sx), DocX),
                                        tracked_srcs(sy), DocY)
          /\ ref_calls = [i \in DOMAIN tracked_srcs(sx) |->
                              [path |-> tracked_srcs(sx)[i], doc |-> DocX]]
                         \o [i \in DOMAIN tracked_srcs(sy) |->
                              [path |-> tracked_srcs(sy)[i], doc |-> DocY]]
          /\ output = [q \in {get_output_path(InputName, d) : d \in DocUniverse} |->
                          IF q = get_output_path(InputName, DocX)
                          THEN markdown_of(sx) ELSE markdown_of(sy)]
    /\ html_files = <<DocX, DocY>> /\ converted_files = <<DocX, DocY>> /\ doc_i = 2
    /\ static \in StaleTrees
    /\ pc = "images" /\ result = "none" /\ stages = <<"scan", "transform", "images">>
    /\ image_map = <<>> /\ hash_to_path = <<>> /\ moved_images = {}
    /\ img_i = 0 /\ counter = 0 /\ hashed = {} /\ copies = <<>>
    /\ stats = <<>> /\ rw_i = 0 /\ removed = {} /\ faults = 0
    /\ written = {} /\ lookup = <<>> /\ first_run = <<>>
    /\ report = [ran |-> FALSE, errors |-> {}]
    /\ pth = PathIdle

\* process_images has returned: the loop has been through the whole index
ProcessImagesReturned ==
    pc = "images" /\ counter = 0 /\ img_i = Len(image_references)

\* ImageManager.__init__ and process_images of a second run: empty tables, the same
\* reference index, the canonical tree as the first run left it, after
\* remove_unreferenced_images or without it
StartSecondRun ==
    /\ ProcessImagesReturned /\ first_run = <<>>
    /\ first_run' = <<image_map>>
    /\ image_map' = <<>> /\ hash_to_path' = <<>> /\ moved_images' = {}
    /\ img_i' = 0 /\ hashed' = {} /\ copies' = <<>>
    /\ \E cleaned \in BOOLEAN :
          static' = IF cleaned
                    THEN Restrict(static, {p \in DOMAIN static :
                                              (static_dir \o "/" \o p) \in moved_images})
                    ELSE static
    /\ UNCHANGED <<html_src, pc, result, html_files, doc_i, converted_files, output,
                   image_references, counter, stats, rw_i, removed, stages, faults, pth, report,
                   written, lookup, ref_calls>>

RerunNext == ProcessImage \/ SuffixStep \/ StartSecondRun

RerunSpec == RerunInit /\ [][RerunNext]_vars

(***************************************************************************)
(* LookupSpec: get_new_image_path_by_filename on its own, called with a    *)
(* file name on a manager whose image_map and canonical tree are drawn.    *)
(***************************************************************************)
LookupNames == {"logo.png", "My Logo.PNG", "a[1].png", "README"}

LookupFiles == {"logo.png", "sub/logo.png", "logo_1.png", "sub/my_logo_2.png",
                "a[1].png", "a1.png", "readme_1"}

LookupMaps ==
    {<<>>,
     <<[path |-> "img/My Logo.PNG", hash |-> sha256("bytes-A"), new |-> "img/my_logo.png"]>>,
     <<[path |-> "img/My Logo.PNG", hash |-> sha256("bytes-A"), new |-> "img/my_logo.png"],
       [path |-> "my_logo.png", hash |-> sha256("bytes-B"), new |-> "my_logo.png"],
       [path |-> "a[1].png", hash |-> sha256("bytes-C"), new |-> "a[1].png"]>>}

LookupInit ==
    /\ html_src = <<>> /\ pc = "idle" /\ result = "none" /\ html_files = <<>>
    /\ doc_i = 0 /\ converted_files = <<>> /\ output = <<>>
    /\ image_references = <<>> /\ hash_to_path = <<>>
    /\ moved_images = {} /\ img_i = 0 /\ counter = 0 /\ hashed = {} /\ copies = <<>>
    /\ stats = <<>> /\ rw_i = 0 /\ removed = {} /\ stages = <<>> /\ faults = 0
    /\ ref_calls = <<>> /\ lookup = <<>>
    /\ written = {}
    /\ first_run = <<>>
    /\ report = [ran |-> FALSE, errors |-> {}]
    /\ pth = PathIdle
    /\ \E m \in LookupMaps, F \in SUBSET LookupFiles :
          /\ image_map = m
          /\ static = [p \in F \cup {m[i].new : i \in DOMAIN m} |-> "bytes"]

\* one call of get_new_image_path_by_filename(filename)
Lookup ==
    /\ lookup = <<>>
    /\ \E filename \in LookupNames :
       \E found \in get_new_image_path_by_filename(filename) :
          lookup' = [filename |-> filename, found |-> found]
    /\ UNCHANGED <<html_src, pc, result, html_files, doc_i, converted_files, output,
                   static, image_references, image_map, hash_to_path, moved_images, img_i,
                   counter, hashed, copies, stats, rw_i, removed, stages, faults, pth, report, first_run, written,
                   ref_calls>>

LookupSpec == LookupInit /\ [][Lookup]_vars

\* a faulty variant of replace_image_path: a rewritten link loses its alt text
replace_image_path_no_alt(link) ==
    IF is_external(link.target) THEN {link}
    ELSE {IF new_path # None /\ new_path # link.target
             THEN [alt |-> "", target |-> new_path] ELSE link :
          new_path \in get_new_image_path_by_filename(Name(Parts(link.target)))}

\* converter.py 250-266: the links replace_image_path can return for a link
replace_image_path(link) ==
    IF is_external(link.target) THEN {link}
    ELSE {IF new_path # None /\ new_path # link.target
             THEN [link EXCEPT !.target = new_path] ELSE link :
          new_path \in get_new_image_path_by_filename(Name(Parts(link.target)))}

\* converter.py 269: re.sub over the image links of a document
updated_contents(content) ==
    {[content EXCEPT !.links = l] :
        l \in {f \in [DOMAIN content.links -> UNION {replace_image_path(content.links[i]) :
                                                     i \in DOMAIN content.links}] :
                  \A i \in DOMAIN content.links : f[i] \in replace_image_path(content.links[i])}}

\* converter.py 238-273: one iteration of the loop over converted_files
UpdateImagePaths ==
    /\ pc = "rewrite" /\ rw_i < Len(converted_files)
    /\ LET md_file == get_output_path(InputName, converted_files[rw_i + 1])
       IN  IF md_file \notin DOMAIN output
           THEN UNCHANGED <<output, written, faults>>
           ELSE \/ \* read_file or write_file: OSError, the document stays as it is
                   /\ faults < MaxFaults /\ faults' = faults + 1
                   /\ UNCHANGED <<output, written>>
                \/ \E updated_content \in updated_contents(output[md_file]) :
                      /\ output' = Put(output, md_file, updated_content)
                      /\ written' = IF updated_content # output[md_file]
                                    THEN written \cup {md_file} ELSE written
                      /\ UNCHANGED faults
    /\ rw_i' = rw_i + 1
    /\ UNCHANGED <<html_src, pc, result, html_files, doc_i, converted_files, static,
                   image_references, image_map, hash_to_path, moved_images, img_i, counter,
                   hashed, copies, stats, removed, stages, pth, report, first_run, lookup, ref_calls>>

(***************************************************************************)
(* convert(): phases 5 and 6.                                              *)
(***************************************************************************)
ImageExtensions == {".png", ".jpg", ".jpeg", ".gif", ".svg", ".webp"}

\* file_handler.py 93-100: the files copy_non_html_files copies
is_copied_asset(path) ==
    /\ ~endswith(lower(Name(Parts(path))), ".html")
    /\ ~endswith(lower(Name(Parts(path))), ".htm")
    /\ \A x \in ImageExtensions : ~endswith(lower(Name(Parts(path))), x)

\* FileSystemHandler.copy_non_html_files (converter.py 79)
CopyNonHtmlFiles ==
    /\ pc = "rewrite" /\ rw_i = Len(converted_files)
    /\ output' =
          [q \in DOMAIN output \cup
                 {output_dir \o "/" \o PathStr(normalize_path(Parts(p))) :
                     p \in {a \in DOMAIN SourceAssets : is_copied_asset(a)}} |->
              IF \E p \in DOMAIN SourceAssets :
                    is_copied_asset(p) /\ q = output_dir \o "/" \o PathStr(normalize_path(Parts(p)))
              THEN [kind |-> "asset",
                    bytes |-> SourceAssets[CHOOSE p \in DOMAIN SourceAssets :
                        is_copied_asset(p)
                        /\ q = output_dir \o "/" \o PathStr(normalize_path(Parts(p)))]]
              ELSE output[q]]
    /\ pc' = "cleanup"
    /\ stages' = Append(stages, "assets")
    /\ UNCHANGED <<html_src, result, html_files, doc_i, converted_files, static,
                   image_references, image_map, hash_to_path, moved_images, img_i, counter,
                   hashed, copies, stats, rw_i, removed, faults, pth, report, first_run, written, lookup, ref_calls>>

\* a faulty variant of unreferenced_images: every file under static_dir
unreferenced_images_all == {static_dir \o "/" \o p : p \in DOMAIN static}

\* image_manager.py 247-254: all_images - moved_images
unreferenced_images == {static_dir \o "/" \o p : p \in DOMAIN static} \ moved_images

\* ImageManager.remove_unreferenced_images, cleanup_empty_directories and the
\* return of convert() (converter.py 83-87)
RemoveUnreferencedImages ==
    /\ pc = "cleanup"
    /\ static' = Restrict(static, {p \in DOMAIN static :
                                      static_dir \o "/" \o p \notin unreferenced_images})
    /\ removed' = unreferenced_images
    /\ pc' = "done" /\ result' = "True"
    /\ stages' = Append(stages, "cleanup")
    /\ UNCHANGED <<html_src, html_files, doc_i, converted_files, output,
                   image_references, image_map, hash_to_path, moved_images, img_i, counter,
                   hashed, copies, stats, rw_i, faults, pth, report, first_run, written, lookup, ref_calls>>

Next ==
    \/ FindHtmlFiles
    \/ ProcessHtmlFile
    \/ BeginProcessImages
    \/ ProcessImage
    \/ SuffixStep
    \/ GetDeduplicationStats
    \/ UpdateImagePaths
    \/ CopyNonHtmlFiles
    \/ RemoveUnreferencedImages

Spec == Init /\ [][Next]_vars

(***************************************************************************)
(* OldTreeSpec: convert() on an output directory whose canonical tree holds *)
(* a file of an earlier run in a subdirectory, the file of a document that  *)
(* has since lost its image next to it.                                     *)
(***************************************************************************)
OldTrees == {[p \in {"sub/banner.png"} |-> "bytes-D"]}

OldTreeInit ==
    /\ \E D \in SUBSET DocUniverse :
       \E sx \in SeqUpTo(ImgSrcs(DocX), MaxImgs), sy \in SeqUpTo(ImgSrcs(DocY), MaxImgs) :
          html_src = [d \in D |-> IF d = DocX THEN sx ELSE sy]
    /\ static \in OldTrees
    /\ pc = "scan" /\ result = "none" /\ html_files = <<>>
    /\ doc_i = 0 /\ converted_files = <<>> /\ output = <<>>
    /\ image_references = <<>> /\ image_map = <<>> /\ hash_to_path = <<>>
    /\ moved_images = {} /\ img_i = 0 /\ counter = 0 /\ hashed = {} /\ copies = <<>>
    /\ stats = <<>> /\ rw_i = 0 /\ removed = {} /\ stages = <<>> /\ faults = 0
    /\ ref_calls = <<>> /\ written = {} /\ lookup = <<>> /\ first_run = <<>>
    /\ report = [ran |-> FALSE, errors |-> {}]
    /\ pth = PathIdle

OldTreeSpec == OldTreeInit /\ [][Next]_vars

(***************************************************************************)
(* ValidateSpec: convert() followed by HtmlToMarkdownConverter.validate(),  *)
(* as main.py runs them with --validate.                                    *)
(***************************************************************************)
\* Path.exists() of a file below output_dir.parent
exists(path) ==
    \/ path \in DOMAIN output
    \/ \E p \in DOMAIN static : path = static_dir \o "/" \o p

\* validator.py 152-172: output_dir.parent / link[2:] for a target that starts with "./"
validator_target(url) == PathStr(Parent(Parts(output_dir))) \o "/" \o SubSeq(url, 3, Len(url))

\* validator.py 35-51: the errors of _validate_naming_conventions for the files of
\* output_dir
naming_errors ==
    {[kind |-> "File not lowercase", file |-> q, target |-> ""] :
        q \in {f \in DOMAIN output : Name(Parts(f)) # lower(Name(Parts(f)))}}
    \cup {[kind |-> "File contains spaces", file |-> q, target |-> ""] :
        q \in {f \in DOMAIN output : Positions(Name(Parts(f)), " ") # {}}}

\* validator.py 70-107: the errors of _validate_markdown_file. _extract_links finds
\* the [alt](url) of an image with a non-empty alt text too, so an image is tested
\* as a link and as an image
markdown_errors(file_path, content) ==
    LET urls == {content.links[i].target : i \in DOMAIN content.links}
        link_urls == {content.links[i].target :
                         i \in {j \in DOMAIN content.links : content.links[j].alt # ""}}
    IN  {[kind |-> "Relative path found", file |-> file_path, target |-> u] :
            u \in {v \in link_urls : /\ ~(is_external_url(v) \/ is_special_link(v))
                                      /\ ~startswith(v, "./")}}
        \cup {[kind |-> "Broken link", file |-> file_path, target |-> u] :
            u \in {v \in link_urls : /\ ~(is_external_url(v) \/ is_special_link(v))
                                      /\ startswith(v, "./")
                                      /\ ~exists(validator_target(v))}}
        \cup {[kind |-> "Relative image path", file |-> file_path, target |-> u] :
            u \in {v \in urls : ~is_external_url(v) /\ ~startswith(v, "./")}}
        \cup {[kind |-> "Missing image", file |-> file_path, target |-> u] :
            u \in {v \in urls : /\ ~is_external_url(v) /\ startswith(v, "./")
                                 /\ ~exists(validator_target(v))}}

\* OutputValidator.validate: self.errors
validate ==
    naming_errors \cup
    UNION {markdown_errors(f, output[f]) :
              f \in {q \in DOMAIN output : output[q].kind = "md"}}

\* HtmlToMarkdownConverter.validate() after convert() has returned True (main.py 62-66)
Validate ==
    /\ pc = "done" /\ result = "True" /\ ~report.ran
    /\ report' = [ran |-> TRUE, errors |-> validate]
    /\ UNCHANGED <<html_src, pc, result, html_files, doc_i, converted_files, output,
                   static, image_references, image_map, hash_to_path, moved_images, img_i,
                   counter, hashed, copies, stats, rw_i, removed, stages, faults, pth,
                   first_run, written, lookup, ref_calls>>

ValidateNext == Next \/ Validate

ValidateSpec == OldTreeInit /\ [][ValidateNext]_vars

(***************************************************************************)
(* The claims.                                                             *)
(***************************************************************************)
\* the references of the index, as (document, src) pairs whose file exists
References ==
    {r \in UNION {{<<image_references[i].docs[j], image_references[i].path>> :
                      j \in DOMAIN image_references[i].docs} : i \in DOMAIN image_references} :
        candidate(r[1], r[2]) \in DOMAIN SourceImages}

\* the bytes of the file a reference names
BytesOf(r) == SourceImages[candidate(r[1], r[2])]

\* ImageManager.get_new_image_path: the canonical path image_map holds for a src
MappedPath(src) == image_map[FirstIndex({i \in DOMAIN image_map : image_map[i].path = src})].new

IsMapped(src) == \E i \in DOMAIN image_map : image_map[i].path = src

ImagesDone == pc \in {"rewrite", "cleanup", "done"}

\* C1: after process_images, two mapped references (document, src) whose files have
\* identical bytes have the same canonical path, and two whose files have different
\* bytes have different canonical paths.
C1_ContentBijection ==
    ImagesDone =>
        \A r1, r2 \in {r \in References : IsMapped(r[2])} :
            (BytesOf(r1) = BytesOf(r2)) <=> (MappedPath(r1[2]) = MappedPath(r2[2]))

\* the image links of a converted document, with the src each came from
LinksOf(d) == output[get_output_path(InputName, d)].links

SrcOfLink(d, i) == SelectSeq(html_src[d], LAMBDA src : src # "")[i]

RewriteDone == (pc = "rewrite" /\ rw_i = Len(converted_files)) \/ pc \in {"cleanup", "done"}

\* C2: after the rewrite pass, every image link of a converted document whose src is
\* not external and whose image the store resolved (the src is in image_map and the
\* bytes of the document's file have a canonical path) has the canonical location of
\* those bytes as its target.
C2_LinkTargetsOwnImage ==
    RewriteDone =>
        \A d \in Range(converted_files) : \A i \in DOMAIN LinksOf(d) :
            LET src == SrcOfLink(d, i)
            IN  (/\ ~is_external(src)
                 /\ IsMapped(src)
                 /\ candidate(d, src) \in DOMAIN SourceImages
                 /\ sha256(BytesOf(<<d, src>>)) \in DOMAIN hash_to_path)
                => LinksOf(d)[i].target =
                      "/static/img/" \o output_dirname \o "/"
                          \o hash_to_path[sha256(BytesOf(<<d, src>>))]

\* C3: when the rewrite pass has run, running it once more changes no document.
C3_RewriteIdempotent ==
    (pc = "rewrite" /\ rw_i = Len(converted_files)) =>
        \A d \in Range(converted_files) :
            updated_contents(output[get_output_path(InputName, d)])
                = {output[get_output_path(InputName, d)]}

\* C4: a copy whose normalized name is taken in its directory (by other content, or
\* by a file whose hash could not be read) goes to <base>_N.<ext> with N >= 1 the
\* smallest number whose name no file there has (every smaller number is taken, N's
\* name is free), any other copy goes to the plain name, and the search never counts
\* past the number of files of the canonical tree.
C4_SmallestFreeSuffix ==
    /\ counter <= Cardinality(DOMAIN static) + 1
    /\ \A i \in DOMAIN copies :
          LET c == copies[i]
              dir == Parent(Parts(c.dst))
              plain_name == normalize_part(Name(Parts(c.src)))
              plain == PathStr(dir \o <<plain_name>>)
              nm == rsplit_dot(plain_name)
              numbered(n) == PathStr(dir \o <<nm[1] \o "_" \o ToString(n) \o "." \o nm[2]>>)
          IN  IF plain \in DOMAIN c.taken
              THEN /\ c.conflict
                   /\ \E N \in 1..(Cardinality(DOMAIN c.taken) + 1) :
                         /\ c.dst = numbered(N)
                         /\ numbered(N) \notin DOMAIN c.taken
                         /\ \A k \in 1..(N - 1) : numbered(k) \in DOMAIN c.taken
              ELSE c.dst = plain /\ ~c.conflict

\* C4's case: with logo.png taken by other content, a new logo.png went to logo_1.png
\* and a further, distinct logo.png to logo_2.png
C4_Witness ==
    \E i, j \in DOMAIN copies :
        /\ i < j
        /\ copies[i].conflict /\ copies[i].dst = "logo_1.png"
        /\ "logo.png" \in DOMAIN copies[i].taken
        /\ copies[j].conflict /\ copies[j].dst = "logo_2.png"
        /\ copies[i].hash # copies[j].hash

\* every tracked src of a converted document is in the reference index for it
AllReferencesAdded ==
    \A d \in Range(converted_files) : \A src \in Range(tracked_srcs(html_src[d])) :
        \E e \in Range(image_references) : e.path = src /\ d \in Range(e.docs)

\* a converted document whose Markdown is no longer what _process_html_file wrote
Rewritten(d) ==
    /\ get_output_path(InputName, d) \in DOMAIN output
    /\ output[get_output_path(InputName, d)] # markdown_of(html_src[d])

\* C5: nothing of process_images has happened (no image resolved, hashed, copied or
\* mapped) unless the loop of phase 3 has been through every found document and the
\* references of the converted ones are in the index; and no document's image link
\* has been rewritten unless process_images is through the whole index.
C5_Staged ==
    /\ (img_i > 0 \/ counter > 0 \/ hashed # {} \/ copies # <<>> \/ image_map # <<>>
            \/ moved_images # {} \/ hash_to_path # <<>>)
        => (doc_i = Len(html_files) /\ AllReferencesAdded)
    /\ (\E d \in Range(converted_files) : Rewritten(d))
        => (img_i = Len(image_references) /\ counter = 0 /\ ImagesDone)

\* C5's case: two documents were found, an image was copied and a link rewritten
C5_Witness ==
    /\ Len(html_files) = 2 /\ copies # <<>>
    /\ \E d \in Range(converted_files) : Rewritten(d)

stage_order == <<"scan", "transform", "images", "rewrite", "assets", "cleanup">>

\* C6: a run of convert() that found a document ends with every stage run once, in
\* order, and True returned; a run that found none ends after the scan with False.
C6_StagesThenTrue ==
    pc \in {"done", "raised"} =>
        IF html_files # <<>>
        THEN result = "True" /\ stages = stage_order
        ELSE result = "False" /\ stages = <<"scan">>

C8_ExternalPassthrough ==
    /\ \A e \in Range(image_references) : ~is_external(e.path)
    /\ \A m \in Range(image_map) : ~is_external(m.path)
    /\ hashed \subseteq DOMAIN SourceImages
    /\ \A c \in Range(copies) : c.src \in DOMAIN SourceImages
    /\ \A d \in Range(converted_files) :
          get_output_path(InputName, d) \in DOMAIN output =>
              \A i \in DOMAIN LinksOf(d) :
                  is_external(SrcOfLink(d, i)) => LinksOf(d)[i].target = SrcOfLink(d, i)

\* C8's case: the rewrite pass is over for a document with an external image whose
\* file name is the name of an image the store mapped
C8_Witness ==
    /\ RewriteDone
    /\ \E d \in Range(converted_files) : \E i \in DOMAIN LinksOf(d) :
          /\ is_external(SrcOfLink(d, i))
          /\ first_match(Name(Parts(SrcOfLink(d, i)))) # 0

C10_SameSubdirectory ==
    pth.calls = {"out", "img"} =>
        pth.img = PathStr(Parent(Parts(BelowOutputDir(pth.out))))

\* C11: the href resolve_path gives for a link to a document of the input tree is
\* "/<output root name>/", the document's output path below the output root as
\* get_output_path gives it, and the anchor of the link.
C11_LinkMatchesOutput ==
    {"out", "link"} \subseteq pth.calls =>
        pth.link = "/" \o output_dirname \o "/" \o BelowOutputDir(pth.out) \o pth.anchor

\* C12: no exception leaves convert(), and a run in which the read or write of a
\* document, or the hash or copy of an image, failed still ends with every stage run.
C12_NoExceptionLeaves ==
    /\ pc # "raised"
    /\ (faults > 0 /\ pc = "done") => (result = "True" /\ stages = stage_order)

\* C13: get_deduplication_stats reports as duplicates_removed the number of entries of
\* the reference index less the number of distinct content hashes, and as
\* deduplication_ratio "0%" for an empty index and otherwise the percentage
\* duplicates_removed / entries with one decimal place, the nearest one; 10 entries
\* and 6 hashes give 4 and "40.0%".
C13_DedupStats ==
    stats # <<>> =>
        LET total == Len(image_references)
            unique == Cardinality(DOMAIN hash_to_path)
        IN  /\ stats.duplicates_removed = total - unique
            /\ total = 0 => stats.deduplication_ratio = "0%"
            /\ total > 0 =>
                  \E tenths \in 0..1000 :
                      /\ stats.deduplication_ratio =
                            ToString(tenths \div 10) \o "." \o ToString(tenths % 10) \o "%"
                      /\ 2 * tenths * total <= 2000 * stats.duplicates_removed + total
                      /\ 2 * tenths * total >= 2000 * stats.duplicates_removed - total
            /\ (total = 10 /\ unique = 6) =>
                  (stats.duplicates_removed = 4 /\ stats.deduplication_ratio = "40.0%")

\* C13's case: the statistics of 10 references with 6 distinct hashes were taken
C13_Witness ==
    /\ stats # <<>>
    /\ Len(image_references) = 10 /\ Cardinality(DOMAIN hash_to_path) = 6
    /\ stats.duplicates_removed = 4 /\ stats.deduplication_ratio = "40.0%"

\* the documents of the calls add_image_reference(path, .) so far, in call order
CallsWith(path) ==
    LET made == SelectSeq(ref_calls, LAMBDA c : c.path = path)
    IN  [i \in DOMAIN made |-> made[i].doc]

\* C14: the reference index has one entry for each path add_image_reference was called
\* with, and the list of a path is the documents of the calls made with it, in call
\* order, repeats kept.
C14_ReferenceLists ==
    /\ \A e \in Range(image_references) : e.docs = CallsWith(e.path) /\ e.docs # <<>>
    /\ \A c \in Range(ref_calls) : \E e \in Range(image_references) : e.path = c.path
    /\ \A i, j \in DOMAIN image_references :
          image_references[i].path = image_references[j].path => i = j

\* C14's case: a path was added three times, twice by one document, with another
\* path in the index
C14_Witness ==
    /\ Len(image_references) >= 2
    /\ \E e \in Range(image_references) :
          Len(e.docs) = 3 /\ e.docs[1] = e.docs[2] /\ e.docs[2] # e.docs[3]

\* C15: the collapse drops the first component only if the first two components of
\* the list it is applied to are equal without regard to case, and drops no more than
\* that one: the output path of a document is its normalized path, whole or, when
\* its first two parts are equal, without the first; the image subdirectory is the
\* normalized directory of the document, whole or, when its first two parts are
\* equal, without the first.  A list of length 0 or 1 is therefore left as it is.
C15_CollapseFirstTwoOnly ==
    LET n == normalize_path(pth.rel)
        d == Parent(n)
        first_two_equal(parts) == Len(parts) >= 2 /\ lower(parts[1]) = lower(parts[2])
    IN  /\ "out" \in pth.calls =>
              \/ pth.out = output_dir \o "/" \o swap_extension(PathStr(n))
              \/ /\ first_two_equal(n)
                 /\ pth.out = output_dir \o "/" \o swap_extension(PathStr(Tail(n)))
        /\ "img" \in pth.calls =>
              \/ pth.img = PathStr(d)
              \/ first_two_equal(d) /\ pth.img = PathStr(Tail(d))

\* C16: the path normalize_path returns has the components of the path it was given,
\* one for one and in order, each in lower case with every space replaced by an
\* underscore.
C16_NormalizedComponents ==
    "out" \in pth.calls =>
        /\ Len(pth.norm) = Len(pth.rel)
        /\ \A i \in DOMAIN pth.rel : pth.norm[i] = replace_spaces(lower(pth.rel[i]))

\* C17: the anchor of the Markdown link convert_a returns for an href with a '#' is
\* in lower case, has no space, has only alphanumeric characters, hyphens and
\* underscores, and has no two hyphens in a row.
C17_AnchorIsSlug ==
    ("md" \in pth.calls /\ Positions(pth.href, "#") # {}) =>
        LET hashes == Positions(pth.md.href, "#")
            slug == SubSeq(pth.md.href, Max(hashes) + 1, Len(pth.md.href))
        IN  /\ hashes # {}
            /\ slug = lower(slug)
            /\ \A i \in 1..Len(slug) :
                  \/ Positions(Letters, Char(slug, i)) # {}
                  \/ Positions(Digits, Char(slug, i)) # {}
                  \/ Char(slug, i) \in {"-", "_"}
            /\ \A i \in 1..(Len(slug) - 1) : SubSeq(slug, i, i + 1) # "--"

\* the file a path names next to a document: the document's directory joined with it
JoinedTo(doc, path) == PathStr(resolve(Parent(doc) \o Parts(path)))

\* the entries of the reference index process_images is through with
Processed == 1..img_i

\* C18: an entry process_images is through with, if not external, was resolved to the
\* file its path names next to the first of its documents, in the order they were
\* added, for which that file exists: this file was hashed, an image_map entry of the
\* path has this file's hash and a copy made for the path is a copy of this file.
\* If the file exists for none of the documents, the path is not in image_map and
\* nothing was copied for it; the later entries are processed all the same.
C18_FirstExistingCandidate ==
    /\ \A i \in Processed :
          LET e == image_references[i]
              existing == {k \in DOMAIN e.docs : JoinedTo(e.docs[k], e.path) \in DOMAIN SourceImages}
              first == CHOOSE k \in existing : \A j \in existing : k <= j
              full == JoinedTo(e.docs[first], e.path)
          IN  IF is_external(e.path) \/ existing = {}
              THEN /\ ~IsMapped(e.path)
                   /\ \A c \in Range(copies) : c.key # e.path
              ELSE /\ full \in hashed
                   /\ \A m \in Range(image_map) :
                         m.path = e.path => m.hash = sha256(SourceImages[full])
                   /\ \A c \in Range(copies) : c.key = e.path => c.src = full
    /\ \A c \in Range(copies) : \E i \in Processed \cup {img_i + 1} :
          i <= Len(image_references) /\ image_references[i].path = c.key
    /\ ImagesDone => img_i = Len(image_references)

\* C18's case: a path no document has a file for was passed over, and a later path,
\* whose file exists with different bytes next to both of its documents, was mapped
C18_Witness ==
    /\ ImagesDone
    /\ \E i, j \in DOMAIN image_references :
          /\ i < j
          /\ \A k \in DOMAIN image_references[i].docs :
                JoinedTo(image_references[i].docs[k], image_references[i].path)
                    \notin DOMAIN SourceImages
          /\ Len(image_references[j].docs) = 2
          /\ IsMapped(image_references[j].path)
          /\ \A k \in 1..2 :
                JoinedTo(image_references[j].docs[k], image_references[j].path)
                    \in DOMAIN SourceImages
          /\ SourceImages[JoinedTo(image_references[j].docs[1], image_references[j].path)]
                # SourceImages[JoinedTo(image_references[j].docs[2], image_references[j].path)]

\* the document whose directory the file of a reference-index entry was found in
ResolvingDoc(e) ==
    e.docs[CHOOSE k \in DOMAIN e.docs :
              /\ JoinedTo(e.docs[k], e.path) \in DOMAIN SourceImages
              /\ \A j \in 1..(k - 1) : JoinedTo(e.docs[j], e.path) \notin DOMAIN SourceImages]

\* C19: in a run of process_images no two copies were made for one content hash; a
\* copy made for a hash is the canonical file of that hash, and every path mapped
\* with that hash is mapped to this canonical path, whichever directory the
\* document that references it lies in.
C19_OneCopyPerHash ==
    /\ \A i, j \in DOMAIN copies : copies[i].hash = copies[j].hash => i = j
    /\ \A c \in Range(copies) :
          c.hash \in DOMAIN hash_to_path /\ hash_to_path[c.hash] = c.dst
    /\ \A m \in Range(image_map) :
          m.hash \in DOMAIN hash_to_path /\ m.new = hash_to_path[m.hash]

\* C19's case: a path was mapped to the copy made earlier for another path with the
\* same bytes, and the two were found from documents in different directories
C19_Witness ==
    /\ ImagesDone
    /\ \E c \in Range(copies) : \E i, j \in DOMAIN image_references :
          /\ i < j
          /\ image_references[i].path = c.key
          /\ IsMapped(image_references[j].path)
          /\ \E m \in Range(image_map) :
                m.path = image_references[j].path /\ m.hash = c.hash /\ m.new = c.dst
          /\ Parent(ResolvingDoc(image_references[i]))
                # Parent(ResolvingDoc(image_references[j]))
          /\ \A d \in Range(copies) : d.key # image_references[j].path

\* no two hashes of hash_to_path have the same canonical path
CanonicalPathsDistinct ==
    \A g, h \in DOMAIN hash_to_path : hash_to_path[g] = hash_to_path[h] => g = h

\* C20: no step of the run changes or removes an entry of hash_to_path, and in every
\* state of the run the canonical paths of two different hashes are different.
C20_CanonicalPathsStable ==
    /\ []CanonicalPathsDistinct
    /\ [][\A h \in DOMAIN hash_to_path :
             h \in DOMAIN hash_to_path' /\ hash_to_path'[h] = hash_to_path[h]]_vars

\* C20's case: the run is over with two hashes in hash_to_path, one of them under a
\* suffixed name because its own name was taken, and a hash that was met a second time
C20_Witness ==
    /\ pc = "done"
    /\ \E g, h \in DOMAIN hash_to_path : g # h
    /\ \E c \in Range(copies) : c.conflict
    /\ \E m, n \in Range(image_map) : m.path # n.path /\ m.hash = n.hash

\* C21: a call of get_new_image_path_by_filename(f) returned the canonical path of
\* the first image_map entry whose original path has the normalized file name of f;
\* with no such entry, a file of the canonical tree with exactly that name; with no
\* such file either, a file named <stem>_<anything><suffix>; and None otherwise.
C21_LookupTiers ==
    lookup # <<>> =>
       LET name == normalize_part(lookup.filename)
           prefix == "/static/img/" \o output_dirname \o "/"
           entries == {i \in DOMAIN image_map :
                          normalize_part(Name(Parts(image_map[i].path))) = name}
           exact == {p \in DOMAIN static : Name(Parts(p)) = name}
           suffixed == {p \in DOMAIN static :
                           /\ Len(Name(Parts(p))) >= Len(name) + 1
                           /\ startswith(Name(Parts(p)), path_stem(name) \o "_")
                           /\ endswith(Name(Parts(p)), path_suffix(name))}
       IN  IF entries # {}
           THEN lookup.found = prefix \o image_map[CHOOSE i \in entries :
                                                      \A j \in entries : i <= j].new
           ELSE IF exact # {} THEN \E p \in exact : lookup.found = prefix \o p
           ELSE IF suffixed # {} THEN \E p \in suffixed : lookup.found = prefix \o p
           ELSE lookup.found = None

\* the Markdown _process_html_file wrote for a converted document
Before(d) == markdown_of(html_src[d])

\* the documents the loop of the rewrite pass has been through
Passed == {converted_files[i] : i \in 1..rw_i}

\* C22: a document the rewrite pass has been through differs from what was written
\* for it in link targets only: the same links in the same order with the same alt
\* texts; the target of an external link and of a link whose file name the image
\* store finds nothing for is the one it had; a changed target is a path the store
\* returned for the file name of the old one; and the pass wrote a document exactly
\* if one of its links changed.
C22_RewriteFrame ==
    /\ \A d \in Passed :
        LET md_file == get_output_path(InputName, d)
            before == Before(d)
            after == output[md_file]
        IN  /\ after.kind = before.kind
            /\ DOMAIN after.links = DOMAIN before.links
            /\ \A i \in DOMAIN before.links :
                  LET old == before.links[i].target
                      found == get_new_image_path_by_filename(Name(Parts(old)))
                  IN  /\ after.links[i].alt = before.links[i].alt
                      /\ is_external(old) => after.links[i].target = old
                      /\ (pc = "rewrite" /\ found = {None}) => after.links[i].target = old
                      /\ (pc = "rewrite" /\ after.links[i].target # old)
                            => after.links[i].target \in found
            /\ md_file \in written <=> after # before
    /\ \A f \in written : \E e \in Passed : f = get_output_path(InputName, e)

\* C22's case: the pass has been through two documents; one has a local link and was
\* not written; the other was written with one target changed and one, for which the
\* store finds nothing, left as the placeholder
C22_Witness ==
    /\ pc = "rewrite"
    /\ \E d, e \in Passed :
          /\ get_output_path(InputName, d) \notin written
          /\ \E i \in DOMAIN Before(d).links : ~is_external(Before(d).links[i].target)
          /\ get_output_path(InputName, e) \in written
          /\ \E i, j \in DOMAIN Before(e).links :
                /\ LinksOf(e)[i].target # Before(e).links[i].target
                /\ LinksOf(e)[i].alt = Before(e).links[i].alt
                /\ ~is_external(Before(e).links[j].target)
                /\ get_new_image_path_by_filename(Name(Parts(Before(e).links[j].target)))
                      = {None}
                /\ LinksOf(e)[j] = Before(e).links[j]

\* a step of process_images in which calculate_hash of the reference's file or
\* shutil.copy2 of it failed (a failure to hash the file that has the wanted name
\* enters the while loop instead, counter' = 1)
HashOrCopyFailed == pc = "images" /\ faults' = faults + 1 /\ counter' = 0

\* C23: a step of process_images in which hashing or copying the reference's file
\* fails leaves hash_to_path, image_map and moved_images as they were, the path of
\* the reference is not in image_map, and the loop goes on to the next entry; the
\* loop ends only when it has been through every entry.
C23_FailureLeavesStore ==
    /\ [][HashOrCopyFailed =>
             /\ hash_to_path' = hash_to_path
             /\ image_map' = image_map
             /\ moved_images' = moved_images
             /\ ~\E m \in Range(image_map') : m.path = image_references[img_i + 1].path
             /\ img_i' = img_i + 1 /\ pc' = "images"]_vars
    /\ [](pc \in {"rewrite", "cleanup", "done"} => img_i = Len(image_references))

\* C23's case: the file of an entry exists but the entry is not mapped, its hash or
\* its copy having failed, and a later entry was copied and mapped
C23_Witness ==
    /\ ImagesDone /\ faults = 1
    /\ \E i, j \in DOMAIN image_references :
          /\ i < j
          /\ \E k \in DOMAIN image_references[i].docs :
                JoinedTo(image_references[i].docs[k], image_references[i].path)
                    \in DOMAIN SourceImages
          /\ ~IsMapped(image_references[i].path)
          /\ IsMapped(image_references[j].path)
          /\ \E c \in Range(copies) : c.key = image_references[j].path

\* C24: every copy of process_images went to a path no file had when it was made,
\* and no step of process_images changes or removes a file the canonical tree has.
C24_NoOverwrite ==
    /\ [](\A c \in Range(copies) : c.dst \notin DOMAIN c.taken)
    /\ [][pc = "images" =>
             \A p \in DOMAIN static : p \in DOMAIN static' /\ static'[p] = static[p]]_vars

\* C24's case: a copy was made while the tree had a file of the same normalized name,
\* and went beside it
C24_Witness ==
    /\ pc = "images"
    /\ \E c \in Range(copies) :
          /\ c.conflict
          /\ PathStr(Parent(Parts(c.dst)) \o <<normalize_part(Name(Parts(c.src)))>>)
                \in DOMAIN c.taken
          /\ \A p \in DOMAIN c.taken : p \in DOMAIN static /\ static[p] = c.taken[p]
          /\ c.dst \in DOMAIN static /\ sha256(static[c.dst]) = c.hash

\* C25: when a second run of process_images, on the canonical tree the first run
\* left and with no I/O fault in either run, has returned, every path the first run
\* mapped is mapped to the same canonical path.
C25_SameNamesOnRerun ==
    (ProcessImagesReturned /\ first_run # <<>> /\ faults = 0) =>
        \A m \in Range(first_run[1]) :
            \E n \in Range(image_map) : n.path = m.path /\ n.new = m.new

\* C26: two different documents of the input tree have different Markdown output
\* paths, and every converted document has a Markdown file of its own: there are as
\* many files under the output directory as documents were written.
C26_OutputPathsDistinct ==
    /\ \A d, e \in Range(html_files) :
          d # e => get_output_path(InputName, d) # get_output_path(InputName, e)
    /\ Cardinality(DOMAIN output) = Len(converted_files)

\* the prefix of the image targets the converter emits
TargetPrefix == "/static/img/" \o output_dirname \o "/"

\* C27: when convert() has returned True, every image target the rewrite pass wrote
\* (a target that is not the one _process_html_file wrote) of the form
\* /static/img/<output directory name>/<rel> names a file <rel> of the canonical tree.
C27_RewrittenTargetsExist ==
    (pc = "done" /\ result = "True") =>
        \A d \in Range(converted_files) : \A i \in DOMAIN LinksOf(d) :
            LET target == LinksOf(d)[i].target
            IN  (target # Before(d).links[i].target /\ startswith(target, TargetPrefix))
                    => SubSeq(target, Len(TargetPrefix) + 1, Len(target)) \in DOMAIN static

\* C28: the duplicates_removed that get_deduplication_stats reported is the number of
\* image_map entries less the number of distinct hashes among them, the number of
\* references mapped to a hash an earlier reference had; a reference that was not
\* resolved or was skipped is not in image_map and adds nothing to it.
C28_DuplicatesRemoved ==
    stats # <<>> =>
        stats.duplicates_removed =
            Len(image_map) - Cardinality({image_map[i].hash : i \in DOMAIN image_map})

\* C29: when validate() has run on the output of convert() and every image link of
\* every Markdown document is external or names an existing file of the canonical
\* tree under the prefix the converter emits, validate() reported no error.
C29_ValidOutputPasses ==
    (/\ report.ran
     /\ \A f \in DOMAIN output : output[f].kind = "md" =>
           \A i \in DOMAIN output[f].links :
               LET target == output[f].links[i].target
               IN  \/ is_external(target)
                   \/ /\ startswith(target, TargetPrefix)
                      /\ SubSeq(target, Len(TargetPrefix) + 1, Len(target)) \in DOMAIN static)
        => report.errors = {}

\* C30: while process_images runs, the canonical path of every image_map entry is
\* the one hash_to_path has for the entry's hash, and every canonical path of
\* hash_to_path is in moved_images and is a file of the canonical tree, with the
\* bytes of that hash.
C30_TablesAgree ==
    pc = "images" =>
        /\ \A i \in DOMAIN image_map :
              /\ image_map[i].hash \in DOMAIN hash_to_path
              /\ hash_to_path[image_map[i].hash] = image_map[i].new
        /\ \A h \in DOMAIN hash_to_path :
              /\ (static_dir \o "/" \o hash_to_path[h]) \in moved_images
              /\ hash_to_path[h] \in DOMAIN static
              /\ sha256(static[hash_to_path[h]]) = h

\* C30's case: process_images is under way with two hashes known, one of them with a
\* canonical file that was found in the tree and not copied, and two paths mapped to
\* one hash
C30_Witness ==
    /\ pc = "images" /\ img_i < Len(image_references)
    /\ \E g, h \in DOMAIN hash_to_path :
          /\ g # h
          /\ \A c \in Range(copies) : c.dst # hash_to_path[g]
    /\ \E i, j \in DOMAIN image_map : i # j /\ image_map[i].hash = image_map[j].hash

====
